---- MODULE Spec2Model ----
(***************************************************************************)
(* Model of arxiv2epub.py: the pipeline that downloads the LaTeX source of *)
(* an arXiv paper, extracts it, selects the main document, extracts the    *)
(* title and drives latexml / latexmlpost / ebook-convert.                  *)
(*                                                                         *)
(* Strings are sequences of tokens.  A token is either one character ("/", *)
(* "{", "}", " ", ...) or a literal that the code only ever tests as a     *)
(* whole (".tex", ".epub", ".tar.gz", "$1", "title", "https:", ...).  The  *)
(* Python string operations (startswith, endswith, split, replace, strip,  *)
(* os.path.join, os.path.basename, re.search) are defined on them.         *)
(***************************************************************************)
EXTENDS Integers, Sequences, FiniteSets, TLC

\* ------------------------------------------------------------------ bounds
MaxTail == 2
MaxTextLen == 5
MaxList == 3
MaxIndex == 3

\* --------------------------------------------------------- string helpers
Range(s) == {s[i] : i \in 1..Len(s)}

SetMax(S) == CHOOSE x \in S : \A y \in S : y <= x

SetMin(S) == CHOOSE x \in S : \A y \in S : x <= y

SeqsUpTo(S, n) == UNION {[1..k -> S] : k \in 0..n}

\* str.startswith
StartsWith(s, pre) == Len(s) >= Len(pre) /\ SubSeq(s, 1, Len(pre)) = pre

\* str.endswith
EndsWith(s, suf) == Len(s) >= Len(suf) /\ SubSeq(s, Len(s) - Len(suf) + 1, Len(s)) = suf

\* str.split(sep) for a one-token separator: the list of pieces
RECURSIVE Split(_, _)
Split(s, sep) ==
    LET idx == {i \in 1..Len(s) : s[i] = sep}
    IN  IF idx = {} THEN <<s>>
        ELSE LET i == SetMin(idx)
             IN  <<SubSeq(s, 1, i - 1)>> \o Split(SubSeq(s, i + 1, Len(s)), sep)

\* list[-1]
LastOf(l) == l[Len(l)]

\* str.replace(old, new) for a one-token old
RECURSIVE Replace(_, _, _)
Replace(s, old, new) ==
    IF s = <<>> THEN <<>>
    ELSE (IF Head(s) = old THEN new ELSE <<Head(s)>>) \o Replace(Tail(s), old, new)

\* str.strip()
IsSpace(c) == c \in {" ", "\n"}

Strip(s) ==
    LET keep == {i \in 1..Len(s) : ~IsSpace(s[i])}
    IN  IF keep = {} THEN <<>> ELSE SubSeq(s, SetMin(keep), SetMax(keep))

\* os.path.join(a, b)
PathJoin(a, b) ==
    IF b # <<>> /\ b[1] = "/" THEN b
    ELSE IF a = <<>> \/ a[Len(a)] = "/" THEN a \o b
    ELSE a \o <<"/">> \o b

\* os.path.basename
Basename(p) == LastOf(Split(p, "/"))

\* the directory part of a path ("" when there is none)
Dirname(p) ==
    LET idx == {i \in 1..Len(p) : p[i] = "/"}
    IN  IF idx = {} THEN <<>> ELSE SubSeq(p, 1, SetMax(idx) - 1)

\* ------------------------------------------------------------- filesystem
\* A filesystem is a function from paths to entries; owner is the process
\* that last wrote the entry (0: it was there before any run).
EmptyFS == [x \in {} |-> [kind |-> "file", owner |-> 0]]

Exists(f, p) == p \in DOMAIN f

\* the OS ignores trailing separators of a path
RECURSIVE Norm(_)
Norm(p) == IF p # <<>> /\ p[Len(p)] = "/" THEN Norm(SubSeq(p, 1, Len(p) - 1)) ELSE p

\* os.path.isdir
IsDir(f, p) == Norm(p) \in DOMAIN f /\ f[Norm(p)].kind = "dir"

\* os.path.isfile
IsFile(f, p) == Norm(p) \in DOMAIN f /\ f[Norm(p)].kind = "file"

Put(f, p, e) == [x \in DOMAIN f \cup {p} |-> IF x = p THEN e ELSE f[x]]

Remove(f, S) == [x \in DOMAIN f \ S |-> f[x]]

\* os.makedirs(p, exist_ok=True): p and every missing ancestor
RECURSIVE MakeDirs(_, _, _)
MakeDirs(f, p, who) ==
    IF Norm(p) = <<>> \/ Exists(f, Norm(p)) THEN f
    ELSE Put(MakeDirs(f, Dirname(Norm(p)), who), Norm(p), [kind |-> "dir", owner |-> who])

\* a tool writes the file p (creating or overwriting it, with its directory)
WriteFile(f, p, who) ==
    Put(MakeDirs(f, Dirname(Norm(p)), who), Norm(p), [kind |-> "file", owner |-> who])

\* the names os.listdir(d) yields (in some order)
ListDirSet(f, d) ==
    {SubSeq(p, Len(Norm(d)) + 2, Len(p)) :
        p \in {q \in DOMAIN f : StartsWith(q, Norm(d) \o <<"/">>) /\ Dirname(q) = Norm(d)}}

\* every path at or below d
Under(f, d) == {q \in DOMAIN f : q = Norm(d) \/ StartsWith(q, Norm(d) \o <<"/">>)}

\* -------------------------------------------------------- program literals
AbsPrefix == <<"https:", "/", "/", "arxiv.org", "/", "abs", "/">>

EPrintPrefix == <<"https:", "/", "/", "arxiv.org", "/", "e-print", "/">>

HTTP_OK == 200

DownloadsDir == <<"downloads">>

UnzippedDir == <<"unzipped">>

OutDir == <<"out">>

OutMainXml == <<"out", "/", "main", ".xml">>

OutMainHtml == <<"out", "/", "main", ".html">>

DefaultLatexFile == <<"main", ".tex">>

DefaultOutput == <<"out", "/", "$1", ".epub">>

\* a file whose bytes are not valid UTF-8
Undecodable == <<"\\xff">>

\* ------------------------------------------------ download_latex_from_arxiv
\* variant: the download directory is created before the URL is validated
download_mkdir_first(arxiv_url, status, f, reqs, who) ==
    LET f1 == MakeDirs(f, DownloadsDir, who)
    IN  IF ~StartsWith(arxiv_url, AbsPrefix)
        THEN [outcome |-> "ValueError", ret |-> <<>>, fs |-> f1, requests |-> reqs]
        ELSE LET paper_id == LastOf(Split(arxiv_url, "/"))
                 output_path == PathJoin(DownloadsDir, paper_id \o <<".tar.gz">>)
                 reqs1 == Append(reqs, EPrintPrefix \o paper_id)
             IN  IF status = HTTP_OK
                 THEN [outcome |-> "return", ret |-> output_path,
                       fs |-> WriteFile(f1, output_path, who), requests |-> reqs1]
                 ELSE [outcome |-> "Exception", ret |-> <<>>, fs |-> f1, requests |-> reqs1]

\* variant: the archive file is opened for writing before the status is tested
download_open_first(arxiv_url, status, f, reqs, who) ==
    IF ~StartsWith(arxiv_url, AbsPrefix)
    THEN [outcome |-> "ValueError", ret |-> <<>>, fs |-> f, requests |-> reqs]
    ELSE LET paper_id == LastOf(Split(arxiv_url, "/"))
             output_path == PathJoin(DownloadsDir, paper_id \o <<".tar.gz">>)
             f2 == WriteFile(MakeDirs(f, DownloadsDir, who), output_path, who)
             reqs1 == Append(reqs, EPrintPrefix \o paper_id)
         IN  IF status = HTTP_OK
             THEN [outcome |-> "return", ret |-> output_path, fs |-> f2, requests |-> reqs1]
             ELSE [outcome |-> "Exception", ret |-> <<>>, fs |-> f2, requests |-> reqs1]

\* status: the status code of the response; f, reqs: the filesystem and the
\* HTTP requests issued so far; who: the calling process.
download_latex_from_arxiv(arxiv_url, status, f, reqs, who) ==
    IF ~StartsWith(arxiv_url, AbsPrefix)
    THEN [outcome |-> "ValueError", ret |-> <<>>, fs |-> f, requests |-> reqs]
    ELSE LET paper_id == LastOf(Split(arxiv_url, "/"))
             source_url == EPrintPrefix \o paper_id
             f1 == MakeDirs(f, DownloadsDir, who)
             output_path == PathJoin(DownloadsDir, paper_id \o <<".tar.gz">>)
             reqs1 == Append(reqs, source_url)
         IN  IF status = HTTP_OK
             THEN [outcome |-> "return", ret |-> output_path,
                   fs |-> WriteFile(f1, output_path, who), requests |-> reqs1]
             ELSE [outcome |-> "Exception", ret |-> <<>>, fs |-> f1, requests |-> reqs1]

\* ---------------------------------------------------------------- get_title
\* the character class [\\\}\{] of the pattern
TitleClass == {"\\", "}", "{"}

\* the pattern title\{(.+)[\\\}\{] matches from position p with the class
\* character at position q ("." is any character but a newline)
TitleMatch(content, p, q) ==
    /\ p + 3 <= q /\ q <= Len(content)
    /\ content[p] = "title" /\ content[p + 1] = "{"
    /\ \A k \in (p + 2)..(q - 1) : content[k] # "\n"
    /\ content[q] \in TitleClass

\* re.search: the leftmost start, and for it the longest (.+)
TitleSearch(content) ==
    LET starts == {p \in 1..Len(content) : \E q \in 1..Len(content) : TitleMatch(content, p, q)}
    IN  IF starts = {} THEN [found |-> FALSE, group |-> <<>>]
        ELSE LET p == SetMin(starts)
                 q == SetMax({r \in 1..Len(content) : TitleMatch(content, p, r)})
             IN  [found |-> TRUE, group |-> SubSeq(content, p + 2, q - 1)]

get_title(latex_file, content, f) ==
    IF ~IsFile(f, latex_file) THEN [outcome |-> "FileNotFoundError", ret |-> <<>>]
    ELSE IF content = Undecodable THEN [outcome |-> "UnicodeDecodeError", ret |-> <<>>]
    ELSE LET match == TitleSearch(content)
         IN  IF match.found THEN [outcome |-> "return", ret |-> Strip(match.group)]
             ELSE [outcome |-> "return", ret |-> latex_file]

\* ---------------------------------------------------------- unzip_latex_file
\* tarok: tar exits with 0; members: the file names the archive holds
unzip_latex_file(file_path, tarok, members, f, who) ==
    LET paper_id == Replace(Basename(file_path), ".tar.gz", <<>>)
        paper_dir == PathJoin(UnzippedDir, paper_id)
        f1 == MakeDirs(f, paper_dir, who)
        RECURSIVE Extract(_, _)
        Extract(g, S) ==
            IF S = {} THEN g
            ELSE LET m == CHOOSE x \in S : TRUE
                 IN  Extract(WriteFile(g, PathJoin(paper_dir, m), who), S \ {m})
    IN  IF tarok /\ IsFile(f, file_path)
        THEN [outcome |-> "return", ret |-> paper_dir, fs |-> Extract(f1, members)]
        ELSE [outcome |-> "Exception", ret |-> <<>>, fs |-> f1]

\* ------------------------------------------------------------ the converters
\* ok: the external command exits with 0, which it cannot without its input
run_latexml(latex_file, output_file, ok, f, who) ==
    IF ok /\ IsFile(f, latex_file)
    THEN [outcome |-> "return", fs |-> WriteFile(f, output_file, who)]
    ELSE [outcome |-> "RuntimeError", fs |-> f]

run_latexmlpost(xml_file, output_file, ok, f, who) ==
    IF ok /\ IsFile(f, xml_file)
    THEN [outcome |-> "return", fs |-> WriteFile(f, output_file, who)]
    ELSE [outcome |-> "RuntimeError", fs |-> f]

convert_html_to_epub(epub_file, html_file, ok, f, who) ==
    IF ok /\ IsFile(f, html_file)
    THEN [outcome |-> "return", fs |-> WriteFile(f, epub_file, who)]
    ELSE [outcome |-> "RuntimeError", fs |-> f]

\* ------------------------------------------------------------ list_tex_files
\* listing: os.listdir(folder), in the order the OS yields it
list_tex_files(folder, listing, f) ==
    IF ~IsDir(f, folder) THEN [outcome |-> "ValueError", ret |-> <<>>]
    ELSE [outcome |-> "return",
          ret |-> SelectSeq(listing, LAMBDA n : EndsWith(n, <<".tex">>))]

\* ----------------------------------------------- ensure_latex_element_exists
\* variant: the test selected_index < 0 is missing, so that a negative index
\* counts from the end of the list
ensure_no_lower_bound(tex_files, element, input) ==
    IF element \in Range(tex_files)
    THEN [outcome |-> "TypeError", ret |-> <<>>, reads |-> 0]
    ELSE IF ~input.num
    THEN [outcome |-> "ValueError", ret |-> <<>>, reads |-> 1]
    ELSE IF input.val >= Len(tex_files)
    THEN [outcome |-> "ValueError", ret |-> <<>>, reads |-> 1]
    ELSE IF input.val < 0
    THEN (IF Len(tex_files) + input.val >= 0
          THEN [outcome |-> "return", ret |-> tex_files[Len(tex_files) + input.val + 1],
                reads |-> 1]
          ELSE [outcome |-> "IndexError", ret |-> <<>>, reads |-> 1])
    ELSE [outcome |-> "return", ret |-> tex_files[input.val + 1], reads |-> 1]

\* input: what int(input(...)) reads, [num |-> FALSE] when it is no integer.
\* reads: the number of reads of standard input.
ensure_latex_element_exists(tex_files, element, input) ==
    IF element \in Range(tex_files)
    THEN \* the log line indexes the list with the string element
         [outcome |-> "TypeError", ret |-> <<>>, reads |-> 0]
    ELSE IF ~input.num
    THEN [outcome |-> "ValueError", ret |-> <<>>, reads |-> 1]
    ELSE IF input.val < 0 \/ input.val >= Len(tex_files)
    THEN [outcome |-> "ValueError", ret |-> <<>>, reads |-> 1]
    ELSE [outcome |-> "return", ret |-> tex_files[input.val + 1], reads |-> 1]

\* ----------------------------------------------------- delete_non_epub_files
\* variant: the test on the .epub suffix is missing
delete_all_files(output_dir, fail, f) ==
    IF ~IsDir(f, output_dir) THEN f
    ELSE Remove(f, {PathJoin(output_dir, file_name) : file_name \in
                     {n \in ListDirSet(f, output_dir) :
                         /\ IsFile(f, PathJoin(output_dir, n))
                         /\ PathJoin(output_dir, n) \notin fail}})

\* fail: the paths whose os.remove raises (logged and swallowed)
delete_non_epub_files(output_dir, fail, f) ==
    IF ~IsDir(f, output_dir) THEN f
    ELSE Remove(f, {PathJoin(output_dir, file_name) : file_name \in
                     {n \in ListDirSet(f, output_dir) :
                         /\ ~EndsWith(n, <<".epub">>)
                         /\ IsFile(f, PathJoin(output_dir, n))
                         /\ PathJoin(output_dir, n) \notin fail}})

\* ============================================================ the pipeline
\* pc, args, loc, err, reads, ran: per process, where main is, its arguments,
\* its locals, the exception that ended it, its reads of standard input and
\* the stages it ran.  fs: the filesystem (fs0: as it was at the start);
\* requests: the HTTP requests issued; resp: the status each process got.
\* world: what is outside the program's control and fixed for a run: the
\* members of the archive the server holds, what the user types at the
\* prompt of each process, the text of the .tex files.
\* h: a function called on its own, with its arguments and result.
VARIABLES pc, args, loc, err, fs, fs0, requests, resp, reads, ran, world, h

vars == <<pc, args, loc, err, fs, fs0, requests, resp, reads, ran, world, h>>

Procs == {1, 2}

\* the stages of main, in the order of its statements
StageOrder == <<"fetch", "extract", "list", "select", "title",
                "latexml", "latexmlpost", "epub", "cleanup">>

StageIndex(st) == CHOOSE i \in 1..Len(StageOrder) : StageOrder[i] = st

\* variant: a failure of latexml is logged but not raised
StageAfter_latexml_swallowed(st, outcome, clear) ==
    IF outcome # "return" /\ st # "latexml" THEN "error"
    ELSE IF st = "epub" THEN (IF clear THEN "cleanup" ELSE "done")
    ELSE IF st = "cleanup" THEN "done"
    ELSE StageOrder[StageIndex(st) + 1]

\* where main goes after a stage that ended with outcome: an exception leaves
\* main, cleanup is run only when --clear is set
StageAfter(st, outcome, clear) ==
    IF outcome # "return" THEN "error"
    ELSE IF st = "epub" THEN (IF clear THEN "cleanup" ELSE "done")
    ELSE IF st = "cleanup" THEN "done"
    ELSE StageOrder[StageIndex(st) + 1]

\* ------------------------------------------------------ the inputs explored
UrlHeads == {<<"https:", "/", "/", "arxiv.org", "/", "abs">>,
             <<"http:", "/", "/", "arxiv.org", "/", "abs">>,
             <<"https:", "/", "/", "arxiv.org", "/", "pdf">>}

UrlTailTokens == {"/", "id1", "id2"}

Urls == {hd \o t : hd \in UrlHeads, t \in SeqsUpTo(UrlTailTokens, MaxTail)}

Statuses == {200, 404, 500}

ArchiveNames == {<<"main", ".tex">>, <<"a", ".tex">>, <<"fig", ".png">>}

LatexFileOptions == {DefaultLatexFile, <<"a", ".tex">>}

OutputOptions == {DefaultOutput, <<"out", "/", "book", ".epub">>}

Inputs == {[num |-> TRUE, val |-> i] : i \in (-1)..MaxIndex} \cup {[num |-> FALSE, val |-> 0]}

TitledText == <<"\\", "title", "{", "a", "}">>

FileTexts == {TitledText, <<"a">>, Undecodable}

\* what an earlier run left behind
OldRunFS ==
    WriteFile(WriteFile(WriteFile(EmptyFS,
        <<"out", "/", "old", ".epub">>, 0),
        OutMainXml, 0),
        <<"downloads", "/", "id1", ".tar.gz">>, 0)

InitialFS == {EmptyFS, OldRunFS}

Perms(S) == {s \in [1..Cardinality(S) -> S] : \A i, j \in 1..Cardinality(S) : s[i] = s[j] => i = j}

NoLoc == [latex_file |-> <<>>, extracted_dir |-> <<>>, latex_found |-> <<>>,
          latex_file_name |-> <<>>, latex_full_file |-> <<>>, title |-> <<>>,
          output_file |-> <<>>]

NoArgs == [arxiv_url |-> <<>>, latex_file |-> <<>>, output |-> <<>>, clear |-> FALSE]

NoCall == [fn |-> "none", arg |-> <<>>, res |-> <<>>, done |-> FALSE]

\* main, lines 316-319: the locals read from the arguments
StartLoc(a) == [NoLoc EXCEPT !.latex_file = a.latex_file, !.output_file = a.output]

ArgSets == [arxiv_url : Urls, latex_file : LatexFileOptions,
            output : OutputOptions, clear : BOOLEAN]

\* one run of main, process 1
Init ==
    /\ \E a \in ArgSets :
          /\ args = [p \in Procs |-> IF p = 1 THEN a ELSE NoArgs]
          /\ loc = [p \in Procs |-> IF p = 1 THEN StartLoc(a) ELSE NoLoc]
    /\ pc = [p \in Procs |-> IF p = 1 THEN "fetch" ELSE "off"]
    /\ err = [p \in Procs |-> "none"]
    /\ fs \in InitialFS
    /\ fs0 = fs
    /\ requests = <<>>
    /\ resp = [p \in Procs |-> 0]
    /\ reads = [p \in Procs |-> 0]
    /\ ran = [p \in Procs |-> <<>>]
    /\ \E m \in SUBSET ArchiveNames, i \in Inputs, c \in FileTexts :
          world = [members |-> m, input |-> [p \in Procs |-> i], content |-> c]
    /\ h = NoCall

\* the bookkeeping every stage of process p does
Step(p, st, outcome) ==
    /\ pc' = [pc EXCEPT ![p] = StageAfter(st, outcome, args[p].clear)]
    /\ err' = [err EXCEPT ![p] = IF outcome = "return" THEN "none" ELSE outcome]
    /\ ran' = [ran EXCEPT ![p] = Append(@, st)]

\* main, line 321
Fetch(p) ==
    /\ pc[p] = "fetch"
    /\ \E status \in Statuses :
          LET r == download_latex_from_arxiv(args[p].arxiv_url, status, fs, requests, p)
          IN  /\ fs' = r.fs
              /\ requests' = r.requests
              /\ resp' = [resp EXCEPT ![p] = IF r.requests = requests THEN 0 ELSE status]
              /\ loc' = [loc EXCEPT ![p].latex_file =
                            IF r.outcome = "return" THEN r.ret ELSE @]
              /\ Step(p, "fetch", r.outcome)
    /\ UNCHANGED <<world, args, fs0, reads, h>>

\* main, lines 322-323
Unzip(p) ==
    /\ pc[p] = "extract"
    /\ \E tarok \in BOOLEAN :
          LET r == unzip_latex_file(loc[p].latex_file, tarok, world.members, fs, p)
          IN  /\ fs' = r.fs
              /\ loc' = [loc EXCEPT ![p].extracted_dir =
                            IF r.outcome = "return" THEN r.ret ELSE @]
              /\ Step(p, "extract", r.outcome)
    /\ UNCHANGED <<world, args, fs0, requests, resp, reads, h>>

\* main, line 325
ListTex(p) ==
    /\ pc[p] = "list"
    /\ \E listing \in Perms(ListDirSet(fs, loc[p].extracted_dir)) :
          LET r == list_tex_files(loc[p].extracted_dir, listing, fs)
          IN  /\ loc' = [loc EXCEPT ![p].latex_found =
                            IF r.outcome = "return" THEN r.ret ELSE @]
              /\ Step(p, "list", r.outcome)
    /\ UNCHANGED <<world, args, fs, fs0, requests, resp, reads, h>>

\* main, line 326: the expected name is the local latex_file
Select(p) ==
    /\ pc[p] = "select"
    /\ LET r == ensure_latex_element_exists(loc[p].latex_found, loc[p].latex_file,
                                            world.input[p])
          IN  /\ reads' = [reads EXCEPT ![p] = @ + r.reads]
              /\ loc' = [loc EXCEPT ![p].latex_file_name =
                            IF r.outcome = "return" THEN r.ret ELSE @]
              /\ Step(p, "select", r.outcome)
    /\ UNCHANGED <<world, args, fs, fs0, requests, resp, h>>

\* main, lines 328-332
Title(p) ==
    /\ pc[p] = "title"
    /\ LET full == PathJoin(loc[p].extracted_dir, loc[p].latex_file_name)
              r == get_title(full, world.content, fs)
              out == loc[p].output_file
          IN  /\ loc' = [loc EXCEPT
                    ![p].latex_full_file = full,
                    ![p].title = IF r.outcome = "return" THEN r.ret ELSE @,
                    ![p].output_file =
                        IF r.outcome = "return" /\ "$1" \in Range(out)
                        THEN Replace(out, "$1", r.ret) ELSE @]
              /\ Step(p, "title", r.outcome)
    /\ UNCHANGED <<world, args, fs, fs0, requests, resp, reads, h>>

\* main, line 334
Latexml(p) ==
    /\ pc[p] = "latexml"
    /\ \E ok \in BOOLEAN :
          LET r == run_latexml(loc[p].latex_full_file, OutMainXml, ok, fs, p)
          IN  /\ fs' = r.fs
              /\ Step(p, "latexml", r.outcome)
    /\ UNCHANGED <<world, args, loc, fs0, requests, resp, reads, h>>

\* main, line 335
Latexmlpost(p) ==
    /\ pc[p] = "latexmlpost"
    /\ \E ok \in BOOLEAN :
          LET r == run_latexmlpost(OutMainXml, OutMainHtml, ok, fs, p)
          IN  /\ fs' = r.fs
              /\ Step(p, "latexmlpost", r.outcome)
    /\ UNCHANGED <<world, args, loc, fs0, requests, resp, reads, h>>

\* main, line 336
Epub(p) ==
    /\ pc[p] = "epub"
    /\ \E ok \in BOOLEAN :
          LET r == convert_html_to_epub(loc[p].output_file, OutMainHtml, ok, fs, p)
          IN  /\ fs' = r.fs
              /\ Step(p, "epub", r.outcome)
    /\ UNCHANGED <<world, args, loc, fs0, requests, resp, reads, h>>

\* main, lines 338-339
Cleanup(p) ==
    /\ pc[p] = "cleanup"
    /\ \E fail \in SUBSET {OutMainXml, OutMainHtml} :
          /\ fs' = delete_non_epub_files(OutDir, fail, fs)
          /\ Step(p, "cleanup", "return")
    /\ UNCHANGED <<world, args, loc, fs0, requests, resp, reads, h>>

Next ==
    \E p \in Procs :
        \/ Fetch(p)
        \/ Unzip(p)
        \/ ListTex(p)
        \/ Select(p)
        \/ Title(p)
        \/ Latexml(p)
        \/ Latexmlpost(p)
        \/ Epub(p)
        \/ Cleanup(p)

Spec == Init /\ [][Next]_vars

\* ------------------------------------- two runs of main at the same time
ConcUrl(p) == AbsPrefix \o (IF p = 1 THEN <<"id1">> ELSE <<"id2">>)

ConcArgs(p, clear) == [arxiv_url |-> ConcUrl(p), latex_file |-> DefaultLatexFile,
                       output |-> DefaultOutput, clear |-> clear]

InitConc ==
    /\ \E c \in [Procs -> BOOLEAN] :
          /\ args = [p \in Procs |-> ConcArgs(p, c[p])]
          /\ loc = [p \in Procs |-> StartLoc(ConcArgs(p, c[p]))]
    /\ pc = [p \in Procs |-> "fetch"]
    /\ err = [p \in Procs |-> "none"]
    /\ fs = EmptyFS
    /\ fs0 = fs
    /\ requests = <<>>
    /\ resp = [p \in Procs |-> 0]
    /\ reads = [p \in Procs |-> 0]
    /\ ran = [p \in Procs |-> <<>>]
    /\ \E i \in [Procs -> {[num |-> TRUE, val |-> 0], [num |-> TRUE, val |-> 1]}] :
          world = [members |-> ArchiveNames, input |-> i, content |-> TitledText]
    /\ h = NoCall

SpecConc == InitConc /\ [][Next]_vars

\* ======================================== the functions called on their own
\* no run of main is in progress
NoRun ==
    /\ args = [p \in Procs |-> NoArgs]
    /\ loc = [p \in Procs |-> NoLoc]
    /\ pc = [p \in Procs |-> "off"]
    /\ err = [p \in Procs |-> "none"]
    /\ fs = EmptyFS
    /\ fs0 = fs
    /\ requests = <<>>
    /\ resp = [p \in Procs |-> 0]
    /\ reads = [p \in Procs |-> 0]
    /\ ran = [p \in Procs |-> <<>>]
    /\ world = [members |-> {}, input |-> [p \in Procs |-> [num |-> FALSE, val |-> 0]],
                content |-> <<>>]

runVars == <<pc, args, loc, err, fs, fs0, requests, resp, reads, ran, world>>

\* ---- ensure_latex_element_exists(tex_files, element)
SelectNames == ArchiveNames \cup {<<"downloads", "/", "id1", ".tar.gz">>}

InitSelect ==
    /\ NoRun
    /\ \E tex_files \in SeqsUpTo(ArchiveNames, MaxList), element \in SelectNames,
          input \in Inputs :
          h = [fn |-> "ensure_latex_element_exists",
               arg |-> [tex_files |-> tex_files, element |-> element, input |-> input],
               res |-> <<>>, done |-> FALSE]

CallSelect ==
    /\ h.fn = "ensure_latex_element_exists" /\ ~h.done
    /\ h' = [h EXCEPT !.done = TRUE,
                      !.res = ensure_latex_element_exists(
                                  h.arg.tex_files, h.arg.element, h.arg.input)]
    /\ UNCHANGED runVars

SpecSelect == InitSelect /\ [][CallSelect]_vars

\* ---- get_title(latex_file)
TextTokens == {"title", "{", "}", "\\", "a", " ", "\n"}

TitlePath == <<"unzipped", "/", "id1", "/", "main", ".tex">>

InitTitle ==
    /\ NoRun
    /\ \E content \in SeqsUpTo(TextTokens, MaxTextLen) \cup {Undecodable} :
          h = [fn |-> "get_title",
               arg |-> [latex_file |-> TitlePath, content |-> content,
                        fs |-> WriteFile(EmptyFS, TitlePath, 0)],
               res |-> <<>>, done |-> FALSE]

CallTitle ==
    /\ h.fn = "get_title" /\ ~h.done
    /\ h' = [h EXCEPT !.done = TRUE,
                      !.res = get_title(h.arg.latex_file, h.arg.content, h.arg.fs)]
    /\ UNCHANGED runVars

SpecTitle == InitTitle /\ [][CallTitle]_vars

\* ---- delete_non_epub_files(output_dir)
\* what the directory may hold: files, a directory, a file inside it
CleanFiles == {<<"out", "/", "report", ".epub">>, <<"out", "/", "scratch", ".xml">>,
               <<"out", "/", "main", ".html">>, <<"out", "/", "notes">>,
               <<"out", "/", "sub", "/", "inner", ".xml">>,
               <<"out", "/", "sub", "/", "inner", ".epub">>}

RECURSIVE WriteAll(_, _)
WriteAll(f, S) ==
    IF S = {} THEN f
    ELSE LET x == CHOOSE y \in S : TRUE IN WriteAll(WriteFile(f, x, 0), S \ {x})

OutsideFS == WriteFile(EmptyFS, <<"downloads", "/", "id1", ".tar.gz">>, 0)

CleanFSs == {WriteAll(MakeDirs(OutsideFS, OutDir, 0), S) : S \in SUBSET CleanFiles}
            \cup {OutsideFS, WriteFile(OutsideFS, OutDir, 0)}

InitClean ==
    /\ NoRun
    /\ \E f \in CleanFSs, fail \in SUBSET {<<"out", "/", "scratch", ".xml">>,
                                          <<"out", "/", "notes">>} :
          h = [fn |-> "delete_non_epub_files",
               arg |-> [output_dir |-> OutDir, fail |-> fail, fs |-> f],
               res |-> <<>>, done |-> FALSE]

CallClean ==
    /\ h.fn = "delete_non_epub_files" /\ ~h.done
    /\ h' = [h EXCEPT !.done = TRUE,
                      !.res = delete_non_epub_files(h.arg.output_dir, h.arg.fail, h.arg.fs)]
    /\ UNCHANGED runVars

SpecClean == InitClean /\ [][CallClean]_vars

\* ================================================================ the claims
IsPrefix(a, b) == Len(a) <= Len(b) /\ SubSeq(b, 1, Len(a)) = a

Ran(p, st) == st \in Range(ran[p])

\* C1: in a run of main, whenever the extracted directory holds a .tex file
\* named as the --latex_file option, that file is selected and standard
\* input is not read; the prompt is reached only when no candidate has that
\* name.
C1_OptionNameSelected ==
    \A p \in Procs :
        Ran(p, "select") =>
            /\ args[p].latex_file \in Range(loc[p].latex_found) =>
                  /\ pc[p] # "error" \/ LastOf(ran[p]) # "select"
                  /\ loc[p].latex_file_name = args[p].latex_file
                  /\ reads[p] = 0
            /\ reads[p] > 0 => args[p].latex_file \notin Range(loc[p].latex_found)

\* C2: for every candidate list and every expected name in the list,
\* ensure_latex_element_exists returns the expected name, raises nothing and
\* does not read standard input.
C2_MemberReturned ==
    (h.fn = "ensure_latex_element_exists" /\ h.done
        /\ h.arg.element \in Range(h.arg.tex_files)) =>
            /\ h.res.outcome = "return"
            /\ h.res.ret = h.arg.element
            /\ h.res.reads = 0

\* C3: when the expected name is not among the candidates,
\* ensure_latex_element_exists reads one index i; it returns candidates[i]
\* when 0 <= i < len(candidates) and fails with a ValueError, returning no
\* file, for every other i (any i when the list is empty).
C3_IndexSelection ==
    (h.fn = "ensure_latex_element_exists" /\ h.done
        /\ h.arg.element \notin Range(h.arg.tex_files) /\ h.arg.input.num) =>
            LET i == h.arg.input.val
                n == Len(h.arg.tex_files)
            IN  /\ h.res.reads = 1
                /\ (0 <= i /\ i < n) =>
                      h.res.outcome = "return" /\ h.res.ret = h.arg.tex_files[i + 1]
                /\ (i < 0 \/ i >= n) =>
                      h.res.outcome = "ValueError" /\ h.res.ret = <<>>

C3_Witness ==
    /\ h.fn = "ensure_latex_element_exists" /\ h.done
    /\ h.arg.tex_files = <<<<"a", ".tex">>, <<"main", ".tex">>>>
    /\ h.arg.element = <<"downloads", "/", "id1", ".tar.gz">>
    /\ h.arg.input = [num |-> TRUE, val |-> 1]
    /\ h.res.outcome = "return" /\ h.res.ret = <<"main", ".tex">>

\* C4: for every URL that does not start with https://arxiv.org/abs/ the
\* fetch fails with a ValueError, no HTTP request has been issued and the
\* filesystem is as it was (no download directory, no archive created).
C4_InvalidUrlRejectedFirst ==
    \A p \in Procs :
        (Ran(p, "fetch") /\ ~StartsWith(args[p].arxiv_url, AbsPrefix)) =>
            /\ pc[p] = "error" /\ err[p] = "ValueError"
            /\ ran[p] = <<"fetch">>
            /\ requests = <<>>
            /\ resp[p] = 0
            /\ fs = fs0

C4_Witness ==
    /\ pc[1] = "error" /\ err[1] = "ValueError" /\ ran[1] = <<"fetch">>
    /\ args[1].arxiv_url = <<"http:", "/", "/", "arxiv.org", "/", "abs", "/", "id1">>
    /\ fs = EmptyFS

\* the archive file a run of main with these arguments downloads to
ArchiveOf(a) == PathJoin(DownloadsDir, LastOf(Split(a.arxiv_url, "/")) \o <<".tar.gz">>)

SameEntry(f, g, q) == (q \in DOMAIN f <=> q \in DOMAIN g) /\ (q \in DOMAIN f => f[q] = g[q])

\* C5: for every response whose status is not 200 the fetch fails with an
\* Exception and the archive file downloads/<paper_id>.tar.gz is neither
\* created nor written; the run writes the archive only on status 200.
C5_NoArchiveOnFailure ==
    \A p \in Procs :
        /\ (resp[p] # 0 /\ resp[p] # HTTP_OK) =>
              /\ pc[p] = "error" /\ err[p] = "Exception"
              /\ ran[p] = <<"fetch">>
              /\ SameEntry(fs, fs0, ArchiveOf(args[p]))
        /\ (pc[p] # "off" /\ ArchiveOf(args[p]) \in DOMAIN fs
              /\ fs[ArchiveOf(args[p])].owner = p) => resp[p] = HTTP_OK

C5_Witness ==
    /\ resp[1] = 404 /\ pc[1] = "error" /\ err[1] = "Exception"
    /\ Len(requests) = 1
    /\ ArchiveOf(args[1]) \notin DOMAIN fs

\* C6: the stages of main run in the order fetch, extract, list, select,
\* title, latexml, latexmlpost, epub, cleanup; a stage starts only when the
\* one before it returned, and once a stage has failed the run is in error
\* and executes nothing more.
C6_Inv ==
    \A p \in Procs :
        pc[p] # "off" =>
            /\ IsPrefix(ran[p], StageOrder)
            /\ (pc[p] = "error") <=> (err[p] # "none")
            /\ pc[p] = "error" => ran[p] # <<>>
            /\ pc[p] \notin {"error", "done"} => pc[p] = StageOrder[Len(ran[p]) + 1]
            /\ pc[p] = "done" =>
                  \/ ran[p] = StageOrder
                  \/ ~args[p].clear /\ ran[p] = SubSeq(StageOrder, 1, Len(StageOrder) - 1)

C6_Step ==
    \A p \in Procs :
        /\ ran'[p] # ran[p] =>
              /\ err[p] = "none"
              /\ Len(ran[p]) < Len(StageOrder)
              /\ ran'[p] = Append(ran[p], StageOrder[Len(ran[p]) + 1])
        /\ pc[p] = "error" => pc'[p] = "error" /\ ran'[p] = ran[p] /\ err'[p] = err[p]
        /\ (\A q \in Procs : ran'[q] = ran[q]) => fs' = fs /\ requests' = requests

C6_StagesInOrder == [](C6_Inv) /\ [][C6_Step]_vars

C6_Witness ==
    /\ pc[1] = "error" /\ err[1] = "RuntimeError"
    /\ ran[1] = SubSeq(StageOrder, 1, 6)
    /\ OutMainXml \notin DOMAIN fs

\* C7: after delete_non_epub_files(dir) on an existing directory, when no
\* deletion fails, no regular file without the .epub suffix is left directly
\* in dir; every entry named *.epub and every subdirectory with its contents
\* is as before; when dir is no directory nothing changes.
C7_CleanupFrame ==
    (h.fn = "delete_non_epub_files" /\ h.done) =>
        LET f == h.arg.fs
            g == h.res
            d == h.arg.output_dir
        IN  IF ~IsDir(f, d) THEN g = f
            ELSE /\ h.arg.fail \cap DOMAIN f = {} =>
                      \A q \in DOMAIN g :
                          (Dirname(q) = d /\ g[q].kind = "file") => EndsWith(q, <<".epub">>)
                 /\ \A q \in DOMAIN f :
                      (Dirname(q) = d /\ EndsWith(q, <<".epub">>)) => SameEntry(f, g, q)
                 /\ \A q \in DOMAIN f :
                      (Dirname(q) = d /\ f[q].kind = "dir") =>
                          \A r \in Under(f, q) : SameEntry(f, g, r)
                 /\ \A q \in DOMAIN f : ~StartsWith(q, d \o <<"/">>) => SameEntry(f, g, q)
                 /\ DOMAIN g \subseteq DOMAIN f

C7_Witness ==
    /\ h.fn = "delete_non_epub_files" /\ h.done
    /\ h.arg.fail = {}
    /\ {<<"out", "/", "report", ".epub">>, <<"out", "/", "scratch", ".xml">>,
        <<"out", "/", "sub", "/", "inner", ".xml">>} \subseteq DOMAIN h.arg.fs
    /\ <<"out", "/", "scratch", ".xml">> \notin DOMAIN h.res
    /\ {<<"out", "/", "report", ".epub">>,
        <<"out", "/", "sub", "/", "inner", ".xml">>} \subseteq DOMAIN h.res

\* the positions where title{ occurs
TitleStarts(t) == {p \in 1..(Len(t) - 1) : t[p] = "title" /\ t[p + 1] = "{"}

\* C8: get_title returns the content of the first title{...} in the text,
\* stripped (stated for a content on one line, not empty and without a brace
\* inside); for a text without title{ it returns the path it was given.
C8_FirstTitleContent ==
    (h.fn = "get_title" /\ h.done /\ h.arg.content # Undecodable) =>
        LET t == h.arg.content
        IN  IF TitleStarts(t) = {}
            THEN h.res.outcome = "return" /\ h.res.ret = h.arg.latex_file
            ELSE LET p == SetMin(TitleStarts(t))
                     closes == {q \in (p + 3)..Len(t) : t[q] = "}"}
                 IN  (closes # {} /\ \A k \in (p + 2)..(SetMin(closes) - 1) :
                                        t[k] \notin {"{", "}", "\n"}) =>
                         /\ h.res.outcome = "return"
                         /\ h.res.ret = Strip(SubSeq(t, p + 2, SetMin(closes) - 1))

\* C9: every URL that passes the validation yields a non-empty paper
\* identifier: no request goes to the bare e-print endpoint and no archive
\* is named ".tar.gz".
C9_IdentifierNonEmpty ==
    /\ \A i \in 1..Len(requests) : Len(requests[i]) > Len(EPrintPrefix)
    /\ PathJoin(DownloadsDir, <<".tar.gz">>) \notin DOMAIN fs
    /\ \A p \in Procs :
          (Ran(p, "fetch") /\ StartsWith(args[p].arxiv_url, AbsPrefix)) =>
              LastOf(Split(args[p].arxiv_url, "/")) # <<>>

\* C10: two runs of main for distinct paper identifiers do not interfere: a
\* step of one run leaves every file and directory written by the other run
\* in place and unmodified.
C10_NoInterference ==
    [][\A p \in Procs : \A q \in DOMAIN fs :
          (fs[q].owner = p /\ pc'[p] = pc[p]) => (q \in DOMAIN fs' /\ fs'[q] = fs[q])]_vars

====
